---- MODULE Spec2Model ----
(***************************************************************************)
(* Model of pantracks/bigtracks.py: the BigTracks reader (a context        *)
(* manager around one PyTables file holding the table "bigtracks"), the    *)
(* functions interpolate_tracks and compute_quality built on it.           *)
(*                                                                         *)
(* Frame numbers are fixed-point: the integer q stands for the number      *)
(* q / Den, so that fractional frame numbers (interpolate_tracks) and      *)
(* whole ones live in the same type.  Coordinates are multiples of Den so  *)
(* that the linear blend is exact.  32-bit float rounding is not modelled. *)
(***************************************************************************)
EXTENDS Integers, Sequences, FiniteSets

VARIABLES fileKind, data, openfile, table, reentered, last

vars == <<fileKind, data, openfile, table, reentered, last>>

----------------------------------------------------------------------------
(* Bounds                                                                  *)

\* frames on disk are drawn from 0..MaxFrame
MaxFrame == 2
\* particle ids are drawn from 1..MaxParticle
MaxParticle == 2
\* the table on disk has at most MaxRows rows
MaxRows == 3
\* resolution of a frame number: q stands for q / Den
Den == 4
\* compute_quality is called with frame_interval in 1..MaxInterval
MaxInterval == 2

\* the whole number f as a fixed-point frame number
Fix(f) == f * Den

Frames == 0..MaxFrame
Particles == 1..MaxParticle
\* the frame numbers passed by callers: every whole frame f and f + 1/Den,
\* the last of which lies above every frame, and -1/Den, which lies below
FNums == {-1} \cup {Fix(f) + d : f \in Frames, d \in {0, 1}}
Intervals == 1..MaxInterval

----------------------------------------------------------------------------
(* Values                                                                  *)

None == "None"
NoValue == <<>>

\* one row of the table, with the six columns of the schema
TrackPoint(f, p) ==
    [frame |-> Fix(f), particle |-> p,
     x |-> Den * (f * f + p), y |-> Den * (2 * p + f),
     intensity |-> 10 * p + f, rg2 |-> p]

\* the rows of the cells in P, sorted by frame (then by particle)
RECURSIVE SortedRows(_)
SortedRows(P) ==
    IF P = {} THEN <<>>
    ELSE LET c == CHOOSE c \in P :
                     \A d \in P : c[1] < d[1] \/ (c[1] = d[1] /\ c[2] <= d[2])
         IN <<TrackPoint(c[1], c[2])>> \o SortedRows(P \ {c})

\* every table of at most MaxRows rows with at most one row per particle per
\* frame, sorted by frame
Tables ==
    {SortedRows(P) :
        P \in {Q \in SUBSET (Frames \X Particles) : Cardinality(Q) <= MaxRows}}

\* what is on disk under self.filename
Kinds == {"ok", "unparsable", "notable", "missing"}

----------------------------------------------------------------------------
(* BigTracks: the instance is the record self = [openfile, table].  Every  *)
(* method is an operator from the instance (and its arguments) to an       *)
(* outcome: the instance afterwards, the exception raised (None when the   *)
(* call returns), the value returned, and how many times the call opened   *)
(* and closed the file.                                                    *)

Outcome(s, e, v, o, c) ==
    [self |-> s, exc |-> e, value |-> v, opens |-> o, closes |-> c]

\* BigTracks.__init__: the file is not opened
init_self == [openfile |-> None, table |-> None]

\* tables.openFile(self.filename, 'r'): HDF5ExtError on a file the engine
\* cannot parse, the engine's own error on a file it cannot reach
openFile ==
    CASE fileKind \in {"ok", "notable"} -> [exc |-> None, value |-> "handle"]
      [] fileKind = "unparsable" -> [exc |-> "HDF5ExtError", value |-> None]
      [] fileKind = "missing" -> [exc |-> "EngineError", value |-> None]

\* self._openfile.root.bigtracks: AttributeError when the file has no such
\* node
root_bigtracks ==
    IF fileKind = "ok" THEN [exc |-> None, value |-> "bigtracks"]
    ELSE [exc |-> "AttributeError", value |-> None]

\* the exceptions the inner handler of __enter__ turns into IOError
Translated(e) ==
    IF e \in {"HDF5ExtError", "AttributeError"} THEN "IOError" ELSE e

\* self.table = self._openfile.root.bigtracks, on the instance s1 that holds
\* the opened file
enter_table(s1, t) ==
    IF t.exc # None
    THEN Outcome(s1, Translated(t.exc), NoValue, 1, 0)
    ELSE Outcome([s1 EXCEPT !.table = t.value], None, NoValue, 1, 0)

\* self._openfile = tables.openFile(...), then the table: the assignment is
\* not made when openFile raises
enter_file(self, f) ==
    IF f.exc # None
    THEN Outcome(self, Translated(f.exc), NoValue, 0, 0)
    ELSE enter_table([self EXCEPT !.openfile = f.value], root_bigtracks)

\* the inner try block of __enter__
enter_try(self) == enter_file(self, openFile)

\* an outer handler that re-raises without closing
enter_cleanup_leak(t) == t

\* the outer handler of __enter__: close what was opened, then re-raise
enter_cleanup(t) ==
    IF t.self.openfile # None
    THEN Outcome([openfile |-> None, table |-> None], t.exc, NoValue,
                 t.opens, t.closes + 1)
    ELSE t

\* the except clause runs only when the try block raised
enter_except(t) == IF t.exc = None THEN t ELSE enter_cleanup(t)

\* BigTracks.__enter__
enter(self) ==
    IF self.openfile # None
    THEN Outcome(self, "RuntimeError", NoValue, 0, 0)
    ELSE enter_except(enter_try(self))

\* __exit__ that closes the file and keeps the reference to it
exit_stale(self) ==
    IF self.openfile # None
    THEN Outcome(self, None, NoValue, 0, 1)
    ELSE Outcome(self, None, NoValue, 0, 0)

\* BigTracks.__exit__
exit(self) ==
    IF self.openfile # None
    THEN Outcome([openfile |-> None, table |-> None], None, NoValue, 0, 1)
    ELSE Outcome(self, None, NoValue, 0, 0)

\* the outcome of call a followed by call b, which was made on a.self
Then(a, b) ==
    Outcome(b.self, b.exc, b.value, a.opens + b.opens, a.closes + b.closes)

\* the end of a with block whose body had outcome b: __exit__ runs however
\* the block ended, and what the block raised or returned stands
with_exit(b, x) ==
    Outcome(x.self, b.exc, b.value, b.opens + x.opens, b.closes + x.closes)

\* a with block that skips __exit__ when the block raises
with_body_unguarded(e, b) ==
    IF b.exc # None THEN Then(e, b) ELSE with_exit(Then(e, b), exit(b.self))

\* the block ran with outcome b after __enter__ returned with outcome e
with_body(e, b) == with_exit(Then(e, b), exit(b.self))

\* a test that never finds the file open
already_open_never(self) == FALSE

\* the test of _open_tracks: self._openfile is not None
already_open(self) == self.openfile # None

\* what a block returns or raises
Ret(v) == [exc |-> None, value |-> v]
Raise(e) == [exc |-> e, value |-> NoValue]

\* a read of self.table on the instance s: r is what the read gives on the
\* rows of the table, io says that the storage engine fails instead
read(s, io, r) ==
    IF s.table = None THEN Outcome(s, "AttributeError", NoValue, 0, 0)
    ELSE IF io THEN Outcome(s, "EngineError", NoValue, 0, 0)
    ELSE Outcome(s, r.exc, r.value, 0, 0)

\* "with self: yield" around a read, __enter__ having had outcome e: the
\* block does not run when __enter__ raises
with_self(e, io, r) ==
    IF e.exc # None THEN e ELSE with_body(e, read(e.self, io, r))

\* BigTracks._open_tracks around a read of self.table: the read runs on the
\* open file, which is opened for it only when no context is open
open_tracks(self, io, r) ==
    IF already_open(self) THEN read(self, io, r)
    ELSE with_self(enter(self), io, r)

\* Table.readWhere on a condition "col == val"
readWhere(rows, pred) == SelectSeq(rows, LAMBDA r : r[pred.col] = pred.val)

\* BigTracks.query
query(self, pred, io) ==
    open_tracks(self, io, Ret(readWhere(data, pred)))

\* '%i' % fnum: the whole part of fnum, rounded towards zero
FormatInt(fnum) == IF fnum >= 0 THEN fnum \div Den ELSE -((-fnum) \div Den)

\* BigTracks.get_frame
get_frame(self, fnum, io) ==
    query(self, [col |-> "frame", val |-> Fix(FormatInt(fnum))], io)

\* BigTracks.get_all
get_all(self, io) ==
    open_tracks(self, io, Ret(data))

\* BigTracks.__getitem__
\* a lookup that hands the empty frame back
getitem_check_lenient(ftr) == ftr

\* the test of __getitem__ on the frame get_frame returned
getitem_check(ftr) ==
    IF ftr.exc # None THEN ftr
    ELSE IF Len(ftr.value) # 0 THEN ftr
    ELSE [ftr EXCEPT !.exc = "IndexError", !.value = NoValue]

getitem(self, fnum, io) == getitem_check(get_frame(self, fnum, io))

\* BigTracks.maxframe: table[-1] raises IndexError on an empty table
maxframe(self, io) ==
    open_tracks(self, io,
        IF Len(data) = 0 THEN Raise("IndexError")
        ELSE Ret(FormatInt(data[Len(data)].frame)))

\* np.arange(a, b) with step 1
arange(a, b) ==
    IF b <= a THEN <<>>
    ELSE [i \in 1..((b - a + Den - 1) \div Den) |-> a + (i - 1) * Den]

\* BigTracks.framerange
framerange(self, io) ==
    open_tracks(self, io,
        IF Len(data) = 0 THEN Raise("IndexError")
        ELSE Ret(arange(data[1].frame, data[Len(data)].frame + Fix(1))))

----------------------------------------------------------------------------
(* interpolate_tracks                                                      *)

\* fnum % 1
Mod1(fnum) == fnum % Den

\* the number of arguments framerange takes besides self
framerange_params == 0

\* the call bigtracks.framerange(<nargs arguments>): a call with the wrong
\* number of arguments raises TypeError before the method runs
call_framerange(self, nargs, io) ==
    IF nargs # framerange_params
    THEN Outcome(self, "TypeError", NoValue, 0, 0)
    ELSE framerange(self, io)

\* ndarray.searchsorted(v): the number of elements less than v
searchsorted(frames, v) == Cardinality({i \in 1..Len(frames) : frames[i] < v})

\* frames[i] with Python's indexing: i counts from 0, a negative i counts
\* from the end, anything else raises IndexError
PyIndex(frames, i) ==
    LET n == Len(frames) IN
    IF 0 <= i /\ i < n THEN Ret(frames[i + 1])
    ELSE IF -n <= i /\ i < 0 THEN Ret(frames[n + i + 1])
    ELSE Raise("IndexError")

\* the particle ids of a frame's rows
ids(rows) == {rows[i].particle : i \in 1..Len(rows)}

\* the rows of ftr0 whose particle is in ftr1 too, with x and y blended, frame
\* set to fnum and the other columns kept: the arithmetic aligns the two
\* frames on the particle id and leaves NaN where one lacks it, dropna drops
\* those rows
row_of(ftr, p) == ftr[CHOOSE j \in 1..Len(ftr) : ftr[j].particle = p]

blend_row(r0, r1, fnum) ==
    [r0 EXCEPT !.frame = fnum,
               !.x = r0.x + ((r1.x - r0.x) * Mod1(fnum)) \div Den,
               !.y = r0.y + ((r1.y - r0.y) * Mod1(fnum)) \div Den]

blend_rows(both, ftr1, fnum) ==
    [i \in 1..Len(both) |->
        blend_row(both[i], row_of(ftr1, both[i].particle), fnum)]

blend(ftr0, ftr1, fnum) ==
    blend_rows(SelectSeq(ftr0, LAMBDA r : r.particle \in ids(ftr1)), ftr1, fnum)

\* ftr1 = bigtracks.get_frame(fnum1): the block's value is the pair of
\* bracketing frames
load_ftr1(g0, g1) ==
    Then(g0, IF g1.exc # None THEN g1
             ELSE [g1 EXCEPT !.value = <<g0.value, g1.value>>])

\* ftr0 = bigtracks.get_frame(fnum0), then ftr1
load_ftr0(g0, fnum1, io) ==
    IF g0.exc # None THEN g0 ELSE load_ftr1(g0, get_frame(g0.self, fnum1, io))

\* the try block around frames[fidx - 1] and frames[fidx]: IndexError
\* becomes ValueError
bracket(fr, i0, i1, io) ==
    IF i0.exc # None \/ i1.exc # None
    THEN [fr EXCEPT !.exc = "ValueError", !.value = NoValue]
    ELSE Then(fr, load_ftr0(get_frame(fr.self, i0.value, io), i1.value, io))

\* fidx = frames.searchsorted(fnum) and the two lookups
search(fr, fidx, io) ==
    bracket(fr, PyIndex(fr.value, fidx - 1), PyIndex(fr.value, fidx), io)

\* the block once frames = bigtracks.framerange(fnum) was evaluated
interpolate_located(fr, fnum, io) ==
    IF fr.exc # None THEN fr ELSE search(fr, searchsorted(fr.value, fnum), io)

\* the block of "with bigtracks:" in interpolate_tracks
interpolate_block(s, fnum, io) ==
    interpolate_located(call_framerange(s, 1, io), fnum, io)

\* "with bigtracks:" in interpolate_tracks, __enter__ having had outcome e
interpolate_with(e, fnum, io) ==
    IF e.exc # None THEN e ELSE with_body(e, interpolate_block(e.self, fnum, io))

\* the statements after the with block
interpolate_blend(w, fnum) ==
    IF w.exc # None THEN w
    ELSE [w EXCEPT !.value = blend(w.value[1], w.value[2], fnum)]

\* the test inverted
exact_frame_inverted(fnum) == Mod1(fnum) # 0

\* whether interpolate_tracks takes the exact-frame path: not (fnum % 1)
exact_frame(fnum) == Mod1(fnum) = 0

\* interpolate_tracks(bigtracks, fnum)
interpolate_tracks(self, fnum, io) ==
    IF exact_frame(fnum) THEN get_frame(self, fnum, io)
    ELSE interpolate_blend(interpolate_with(enter(self), fnum, io), fnum)

----------------------------------------------------------------------------
(* compute_quality                                                         *)

\* frames[::frame_interval]
stride(frames, k) ==
    [i \in 1..((Len(frames) + k - 1) \div k) |-> frames[(i - 1) * k + 1]]

\* pandas.DataFrame({'N': -1, 'Nconserved': -1}, index=frames): one row for
\* each sampled frame
new_btq(frames) ==
    [f \in {frames[i] : i \in 1..Len(frames)} |-> [N |-> -1, Nconserved |-> -1]]

\* a reference frame that follows the frame loaded last
reference_latest(ftr0, ftr) == <<ftr>>

\* the reference frame after a sampled frame was loaded:
\* if ftr0 is None: ftr0 = ftr.  <<>> stands for None, <<rows>> for a frame
reference(ftr0, ftr) == IF ftr0 = <<>> THEN <<ftr>> ELSE ftr0

\* (ftr.frame - ftr0.frame).count(): the difference is aligned on the
\* particle id and is NaN for an id one of the two lacks
count_common(ftr, ftr0) == Cardinality(ids(ftr) \cap ids(ftr0))

\* the row of btq for the frame ftr, with reference frame ftr0
quality_row(ftr, ftr0) ==
    [N |-> Len(ftr), Nconserved |-> count_common(ftr, ftr0)]

\* the loop of compute_quality over frames[i..], with the rows of btq filled
\* so far and the reference frame ftr0
RECURSIVE quality_loop(_, _, _, _, _, _)
quality_step(g, frames, i, btq, ref, io) ==
    IF g.exc # None THEN g
    ELSE Then(g, quality_loop(g.self, frames, i + 1,
                              [btq EXCEPT ![frames[i]] = quality_row(g.value, ref[1])],
                              ref, io))

quality_loaded(g, frames, i, btq, ftr0, io) ==
    quality_step(g, frames, i, btq,
                 IF g.exc # None THEN ftr0 ELSE reference(ftr0, g.value), io)

quality_loop(s, frames, i, btq, ftr0, io) ==
    IF i > Len(frames) THEN Outcome(s, None, btq, 0, 0)
    ELSE quality_loaded(get_frame(s, frames[i], io), frames, i, btq, ftr0, io)

\* the block once frames = bigtracks.framerange()[::frame_interval] is known
quality_sampled(fr, frames, io) ==
    Then(fr, quality_loop(fr.self, frames, 1, new_btq(frames), <<>>, io))

quality_ranged(fr, frame_interval, io) ==
    IF fr.exc # None THEN fr
    ELSE quality_sampled(fr, stride(fr.value, frame_interval), io)

\* the block of "with bigtracks:" in compute_quality
quality_block(s, frame_interval, io) ==
    quality_ranged(call_framerange(s, 0, io), frame_interval, io)

\* "with bigtracks:" in compute_quality, __enter__ having had outcome e
quality_with(e, frame_interval, io) ==
    IF e.exc # None THEN e
    ELSE with_body(e, quality_block(e.self, frame_interval, io))

\* compute_quality(bigtracks, frame_interval)
compute_quality(self, frame_interval, io) ==
    quality_with(enter(self), frame_interval, io)

----------------------------------------------------------------------------
(* The state machine: one reader on one file, called by one caller.        *)
(* last records the call that was made last: its name and argument,        *)
(* whether a context was open when it was made (wasOpen), what it raised   *)
(* or returned, and how many times it opened and closed the file.          *)
(* reentered says that a context was exited, that the next call entered a  *)
(* new one, and that every call since was an __enter__ too.                *)

Call(op, arg, io, out) ==
    [op |-> op, arg |-> arg, io |-> io, wasOpen |-> openfile # None,
     exc |-> out.exc, value |-> out.value,
     opens |-> out.opens, closes |-> out.closes]

self == [openfile |-> openfile, table |-> table]

Init ==
    /\ fileKind \in Kinds
    /\ data \in (IF fileKind = "ok" THEN Tables ELSE {<<>>})
    /\ openfile = init_self.openfile
    /\ table = init_self.table
    /\ reentered = FALSE
    /\ last = [op |-> "init", arg |-> 0, io |-> FALSE, wasOpen |-> FALSE,
               exc |-> None, value |-> NoValue, opens |-> 0, closes |-> 0]

\* the call op(arg) with outcome out
Do(op, arg, io, out) ==
    /\ openfile' = out.self.openfile
    /\ table' = out.self.table
    /\ last' = Call(op, arg, io, out)
    /\ reentered' =
          /\ op = "enter"
          /\ \/ last.op = "exit" /\ last.closes = 1 /\ out.exc = None
             \/ reentered
    /\ UNCHANGED <<fileKind, data>>

\* with bt: ... entered by the caller
Enter == Do("enter", 0, FALSE, enter(self))

\* ... and left by the caller
Exit == Do("exit", 0, FALSE, exit(self))

\* the conditions callers pass to query
Preds ==
    {[col |-> "frame", val |-> Fix(f)] : f \in Frames}
        \cup {[col |-> "particle", val |-> p] : p \in Particles}

Query == \E pred \in Preds, io \in BOOLEAN : Do("query", pred, io, query(self, pred, io))

GetFrame == \E fnum \in FNums, io \in BOOLEAN :
    Do("get_frame", fnum, io, get_frame(self, fnum, io))

GetAll == \E io \in BOOLEAN : Do("get_all", 0, io, get_all(self, io))

GetItem == \E fnum \in FNums, io \in BOOLEAN :
    Do("getitem", fnum, io, getitem(self, fnum, io))

Maxframe == \E io \in BOOLEAN : Do("maxframe", 0, io, maxframe(self, io))

Framerange == \E io \in BOOLEAN : Do("framerange", 0, io, framerange(self, io))

\* the storage engine is taken not to fail in the two functions below
Interpolate == \E fnum \in FNums :
    Do("interpolate", fnum, FALSE, interpolate_tracks(self, fnum, FALSE))

ComputeQuality == \E k \in Intervals :
    Do("compute_quality", k, FALSE, compute_quality(self, k, FALSE))

Next ==
    \/ Enter
    \/ Exit
    \/ Query
    \/ GetFrame
    \/ GetAll
    \/ GetItem
    \/ Maxframe
    \/ Framerange
    \/ Interpolate
    \/ ComputeQuality

Spec == Init /\ [][Next]_vars

----------------------------------------------------------------------------
(* Properties                                                              *)

\* the read operations of BigTracks
ReadOps == {"query", "get_frame", "get_all", "getitem", "maxframe", "framerange"}

\* the kinds of file __enter__ reports as corrupted
Corrupt == {"unparsable", "notable"}

\* the rows of the table whose frame is the whole part of fnum
RowsAt(fnum) == SelectSeq(data, LAMBDA r : r.frame = Fix(FormatInt(fnum)))

\* the particle ids of the table's rows of frame f
ParticlesAt(f) == {data[i].particle : i \in {j \in 1..Len(data) : data[j].frame = f}}

min_frame == data[1].frame
max_frame == data[Len(data)].frame

\* C1: entering a context while one is open raises RuntimeError (AlreadyOpen)
\* and leaves the open context as it is; entering while none is open never
\* raises it and succeeds on a sound file; exiting leaves no context open, so
\* that the next entry succeeds again, any number of times.
C1_EnterExit ==
    /\ last.op = "enter" /\ last.wasOpen =>
          /\ last.exc = "RuntimeError"
          /\ openfile # None /\ table # None
          /\ last.opens = 0 /\ last.closes = 0
    /\ last.op = "enter" /\ ~last.wasOpen =>
          /\ last.exc # "RuntimeError"
          /\ fileKind = "ok" => last.exc = None /\ openfile # None /\ table # None
    /\ last.op = "exit" => openfile = None /\ table = None /\ last.exc = None

\* a context was exited, a new one was entered, and a nested entry failed
C1_Witness ==
    /\ reentered
    /\ last.op = "enter" /\ last.wasOpen /\ last.exc = "RuntimeError"
    /\ openfile # None

\* C2: a read operation called while no context is open leaves the instance
\* with no file handle and no table reference, whether it returns or raises,
\* and closes the file as often as it opened it: once on a file that opens.
C2_PerCallClose ==
    last.op \in ReadOps /\ ~last.wasOpen =>
        /\ openfile = None /\ table = None
        /\ last.opens = last.closes
        /\ fileKind = "ok" => last.opens = 1

\* an indexed access outside a context raised IndexError after opening the file
C2_Witness ==
    /\ last.op = "getitem" /\ ~last.wasOpen /\ last.exc = "IndexError"
    /\ last.opens = 1 /\ last.closes = 1
    /\ openfile = None

\* C3: the file is opened once, by the entry of the context; a read
\* operation called while the context is open runs on the open file, neither
\* opens nor closes it and leaves the context open; the exit closes it.
C3_SessionReuse ==
    /\ last.op \in ReadOps /\ last.wasOpen =>
          /\ last.opens = 0 /\ last.closes = 0
          /\ openfile # None /\ table # None
          /\ last.exc \notin {"RuntimeError", "IOError", "AttributeError"}
    /\ last.op = "enter" /\ last.exc = None =>
          last.opens = 1 /\ last.closes = 0
    /\ last.op = "exit" /\ last.wasOpen =>
          last.opens = 0 /\ last.closes = 1 /\ openfile = None

\* a read inside a context returned
C3_Witness ==
    /\ last.op = "maxframe" /\ last.wasOpen /\ last.exc = None
    /\ openfile # None /\ last.opens = 0 /\ last.closes = 0

\* C4: interpolate_tracks at a fractional frame number and compute_quality,
\* called while the caller's context is open, do not raise RuntimeError
\* (AlreadyOpen) and leave the context open.
C4_OpsInSession ==
    /\ last.op = "interpolate" /\ ~exact_frame(last.arg) /\ last.wasOpen =>
          last.exc # "RuntimeError" /\ openfile # None
    /\ last.op = "compute_quality" /\ last.wasOpen =>
          last.exc # "RuntimeError" /\ openfile # None

\* C5: on a file the engine cannot parse or that lacks the table, entering
\* raises IOError (CorruptFile) with whatever was opened closed again: the
\* instance holds no file handle and no table reference, so that no later
\* entry is rejected with RuntimeError.
C5_CorruptFile ==
    fileKind \in Corrupt =>
        /\ openfile = None /\ table = None
        /\ last.op = "enter" =>
              last.exc = "IOError" /\ last.opens = last.closes

\* the file was opened, found to lack the table and closed
C5_Witness ==
    /\ fileKind = "notable"
    /\ last.op = "enter" /\ last.exc = "IOError"
    /\ last.opens = 1 /\ last.closes = 1
    /\ openfile = None /\ table = None

\* C6: table[fnum] raises IndexError (FrameNotFound) exactly when the frame
\* has no rows and returns the rows of get_frame(fnum) otherwise; get_frame
\* never raises IndexError and returns the empty result for an absent frame.
C6_IndexedAccess ==
    /\ last.op = "getitem" /\ fileKind = "ok" /\ ~last.io =>
          IF Len(RowsAt(last.arg)) = 0
          THEN last.exc = "IndexError"
          ELSE last.exc = None /\ last.value = RowsAt(last.arg)
    /\ last.op = "getitem" /\ last.exc = "IndexError" => Len(RowsAt(last.arg)) = 0
    /\ last.op = "get_frame" =>
          /\ last.exc # "IndexError"
          /\ fileKind = "ok" /\ ~last.io =>
                last.exc = None /\ last.value = RowsAt(last.arg)

\* an indexed access to a frame absent from a table that has rows
C6_Witness ==
    /\ last.op = "getitem" /\ last.exc = "IndexError"
    /\ Len(data) > 0 /\ Len(RowsAt(last.arg)) = 0

\* C7: interpolate_tracks at a fractional fnum below the first or above the
\* last frame of the table raises ValueError (OutOfRange).
C7_OutOfRange ==
    /\ last.op = "interpolate" /\ ~exact_frame(last.arg)
    /\ ~last.wasOpen /\ fileKind = "ok" /\ ~last.io /\ Len(data) > 0
    /\ (last.arg < min_frame \/ last.arg > max_frame)
    => last.exc = "ValueError"

\* the rows C8 expects between the frames f0 and f0 + 1
Blended(f0, fnum) ==
    {[frame |-> fnum, particle |-> p,
      x |-> TrackPoint(f0, p).x
              + ((TrackPoint(f0 + 1, p).x - TrackPoint(f0, p).x) * Mod1(fnum)) \div Den,
      y |-> TrackPoint(f0, p).y
              + ((TrackPoint(f0 + 1, p).y - TrackPoint(f0, p).y) * Mod1(fnum)) \div Den,
      intensity |-> TrackPoint(f0, p).intensity,
      rg2 |-> TrackPoint(f0, p).rg2] :
        p \in ParticlesAt(Fix(f0)) \cap ParticlesAt(Fix(f0 + 1))}

\* C8: for fnum strictly between two consecutive observed frames,
\* interpolate_tracks returns one row for each particle of both frames, with
\* x and y blended by fnum mod 1 and frame = fnum, and no other row.
C8_Interpolated ==
    \A f0 \in Frames :
        /\ last.op = "interpolate" /\ ~last.wasOpen /\ fileKind = "ok" /\ ~last.io
        /\ Fix(f0) < last.arg /\ last.arg < Fix(f0 + 1)
        /\ ParticlesAt(Fix(f0)) # {} /\ ParticlesAt(Fix(f0 + 1)) # {}
        => /\ last.exc = None
           /\ Len(last.value) = Cardinality(Blended(f0, last.arg))
           /\ {last.value[i] : i \in 1..Len(last.value)} = Blended(f0, last.arg)

\* the frames compute_quality samples with interval k
Sampled(k) ==
    {f \in {Fix(n) : n \in Frames} :
        min_frame <= f /\ f <= max_frame /\ ((f - min_frame) \div Den) % k = 0}

\* C9: compute_quality returns one entry for every frame_interval-th frame
\* from the first frame on; N is the number of particles of the frame and
\* Nconserved the number of them that the first frame has too, hence
\* Nconserved <= N, with equality for the first frame.
C9_Quality ==
    /\ last.op = "compute_quality" /\ last.exc = None =>
          /\ DOMAIN last.value = Sampled(last.arg)
          /\ \A f \in Sampled(last.arg) :
                /\ last.value[f].N = Cardinality(ParticlesAt(f))
                /\ last.value[f].Nconserved =
                      Cardinality(ParticlesAt(f) \cap ParticlesAt(min_frame))
                /\ last.value[f].Nconserved <= last.value[f].N
          /\ last.value[min_frame].Nconserved = last.value[min_frame].N
    /\ /\ last.op = "compute_quality" /\ ~last.wasOpen
       /\ fileKind = "ok" /\ ~last.io /\ Len(data) > 0
       => last.exc = None

\* every particle in frame 0 and all but one of them in frame MaxFrame,
\* sampled at interval MaxFrame
C9_Witness ==
    /\ last.op = "compute_quality" /\ last.exc = None /\ last.arg = MaxFrame
    /\ DOMAIN last.value = {Fix(0), Fix(MaxFrame)}
    /\ last.value[Fix(0)] = [N |-> MaxParticle, Nconserved |-> MaxParticle]
    /\ last.value[Fix(MaxFrame)] = [N |-> MaxParticle - 1, Nconserved |-> MaxParticle - 1]

\* C10: at a whole fnum interpolate_tracks returns the rows of frame fnum, as
\* get_frame does, computes no bracketing frames and leaves the context open
\* or closed as it found it.
C10_ExactFrame ==
    last.op = "interpolate" /\ Mod1(last.arg) = 0 =>
        /\ (openfile # None) = last.wasOpen
        /\ last.opens = last.closes
        /\ last.exc \notin {"TypeError", "ValueError", "RuntimeError"}
        /\ fileKind = "ok" /\ ~last.io =>
              last.exc = None /\ last.value = RowsAt(last.arg)

\* a whole frame number that has a row for every particle, outside a context
C10_Witness ==
    /\ last.op = "interpolate" /\ Mod1(last.arg) = 0 /\ last.exc = None
    /\ Len(last.value) = MaxParticle
    /\ ~last.wasOpen

====
